---- MODULE Spec2Model ----
(***************************************************************************)
(* toobuff: a command line journal of daily check-ins graded per ISO week  *)
(* against timestamped goal snapshots (src/toobuff/config.py and           *)
(* src/toobuff/commands.py).                                               *)
(*                                                                         *)
(* Time.  An instant is a natural number of seconds since                  *)
(* 2024-01-01 00:00:00 (a Monday); a day is scaled down to SecondsPerDay   *)
(* seconds and fractions of a second are left out, so the last instant of  *)
(* a day is its last second.  All wall clocks are one clock: check-ins are *)
(* stamped in US/Eastern and snapshot files in local time, and             *)
(* get_config_path_for_date drops the zone before comparing.               *)
(*                                                                         *)
(* Numbers.  Sums and averages are exact: an average is kept as the pair   *)
(* (sum, count) and compared by cross-multiplication, a tolerance as a     *)
(* whole percentage.  Python computes them in binary floating point.       *)
(***************************************************************************)
EXTENDS Integers, Sequences, FiniteSets, TLC

VARIABLES
    now,        \* the wall clock: the last instant a command read
    configs,    \* the config directory: file timestamp -> stored snapshot
    checkins,   \* data.json: the check-in log, in stored order
    saved,      \* history: every save_config call, as [file, snapshot]
    output,     \* what the last command produced
    week_data,  \* a week bucket handed to check_goals_for_week
    config,     \* the snapshot handed to check_goals_for_week
    goals_info, \* the result of check_goals_for_week
    week_is_current, \* is_current_week as handed to display_weekly_metrics
    weekly_score,    \* the result of calculate_weekly_score
    grade_input,     \* a percentage handed to calculate_letter_grade
    grade_shown,     \* the grade outcome: a letter, "in progress" or "none"
    week_input,      \* an instant handed to the week functions
    week_bounds,     \* its week id, week start and week end
    data_file,       \* data.json as load_data finds it: the dict stored, or no file
    data,            \* the dict load_data returned to the command that runs
    block,           \* the check-in dialogue: (workout_week, workout_day) once parsed
    primary_lifts,   \* the check-in dialogue: the lifts entered so far
    lift,            \* the check-in dialogue: the lift whose weight is asked for
    pc          \* the position of a run of the functions on their own

vars ==
    <<now, configs, checkins, saved, output, week_data, config, goals_info,
      week_is_current, weekly_score, grade_input, grade_shown, week_input,
      week_bounds, data_file, data, block, primary_lifts, lift, pc>>

cliVars == <<now, configs, checkins, saved, output>>

dataVars == <<data_file, data>>

dialogVars == <<block, primary_lifts, lift>>

evalVars ==
    <<week_data, config, goals_info, week_is_current, weekly_score, grade_input,
      grade_shown, week_input, week_bounds, data_file, data, block, primary_lifts,
      lift, pc>>

----------------------------------------------------------------------------
(* Bounds of the model *)

SecondsPerDay == 2

MaxSaves == 2

MaxCheckins == 2

MaxValues == 2

MaxCount == 2

MaxWake == 5

GradeSteps == 100

MaxDays == 750

----------------------------------------------------------------------------
(* Python values *)

\* An optional value is a sequence of at most one element: None is the empty one.
\* The empty sequence is also the empty dict and the empty list.
None == <<>>

Some(v) == <<v>>

\* dict.get(k, default) and d[k] = v
Get(d, k, default) == IF k \in DOMAIN d THEN d[k] ELSE default

DictSet(d, k, v) == [x \in DOMAIN d \cup {k} |-> IF x = k THEN v ELSE d[x]]

RECURSIVE SumSeq(_)
SumSeq(s) == IF s = <<>> THEN 0 ELSE s[1] + SumSeq(Tail(s))

Abs(x) == IF x < 0 THEN -x ELSE x

----------------------------------------------------------------------------
(* datetime: instants, days, the calendar *)

\* datetime(y, m, d, H, M, S): day n since 2024-01-01 and the second in it
At(n, sec) == n * SecondsPerDay + sec

DayOf(t) == t \div SecondsPerDay

IsLeap(y) == (y % 4 = 0 /\ y % 100 # 0) \/ y % 400 = 0

DaysInYear(y) == IF IsLeap(y) THEN 366 ELSE 365

\* date.year and the 0-based day of the year of day n, counting from 2024
RECURSIVE YearFrom(_, _)
YearFrom(y, n) == IF n < DaysInYear(y) THEN <<y, n>> ELSE YearFrom(y + 1, n - DaysInYear(y))

CalendarYear(n) == YearFrom(2024, n)[1]

DayOfYear(n) == YearFrom(2024, n)[2]

\* date.isocalendar(): <<ISO year, ISO week, weekday>>, Monday = 1; the week
\* belongs to the year of its Thursday
isocalendar(t) ==
    LET n == DayOf(t)
        weekday == (n % 7) + 1
        thursday == n - (weekday - 1) + 3
    IN  <<CalendarYear(thursday), (DayOfYear(thursday) \div 7) + 1, weekday>>

----------------------------------------------------------------------------
(* config.py: the snapshot store *)

\* config_dir.glob("config_*.json") enumerates the files in an order of its own
GlobOrders ==
    LET S == DOMAIN configs
    IN  {o \in [1..Cardinality(S) -> S] : \A i, j \in DOMAIN o : i # j => o[i] # o[j]}

\* list.sort(key = timestamp): insertion of each element after the ones not above it
RECURSIVE SortByTimestamp(_)
SortByTimestamp(s) ==
    IF s = <<>> THEN <<>>
    ELSE LET rest == SortByTimestamp(SubSeq(s, 1, Len(s) - 1))
             x == s[Len(s)]
             below == SelectSeq(rest, LAMBDA y : y <= x)
             above == SelectSeq(rest, LAMBDA y : y > x)
         IN  below \o <<x>> \o above

\* list_config_files without the sort: the files as the directory lists them
list_config_files_unsorted(order) == order

\* The files in timestamp order, oldest first; a file is named by its timestamp
list_config_files(order) == SortByTimestamp(order)

get_config_path(order) ==
    LET config_files == list_config_files(order)
    IN  IF config_files # <<>> THEN Some(config_files[Len(config_files)]) ELSE None

\* load_config falling back to the default goals when no snapshot is stored
load_config_default(order) ==
    LET config_path == get_config_path(order)
    IN  IF config_path = None
        THEN Some([workouts_per_week |-> 4, wake_up_time_goal |-> <<6, 30>>])
        ELSE Some(configs[config_path[1]])

load_config(order) ==
    LET config_path == get_config_path(order)
    IN  IF config_path = None THEN None ELSE Some(configs[config_path[1]])

\* The loop of get_config_path_for_date: keep the last file not after the target, stop
\* at the first one after it
RECURSIVE ScanConfigs(_, _, _, _)
ScanConfigs(config_files, i, target_date, applicable_path) ==
    IF i > Len(config_files) THEN applicable_path
    ELSE IF config_files[i] <= target_date
         THEN ScanConfigs(config_files, i + 1, target_date, Some(config_files[i]))
         ELSE applicable_path

\* get_config_path_for_date without the fallback to the earliest snapshot
get_config_path_for_date_only_before(order, target_date) ==
    LET config_files == list_config_files(order)
    IN  IF config_files = <<>> THEN None
        ELSE ScanConfigs(config_files, 1, target_date, None)

\* get_config_path_for_date falling back to the latest snapshot instead of the earliest
get_config_path_for_date_latest(order, target_date) ==
    LET config_files == list_config_files(order)
    IN  IF config_files = <<>> THEN None
        ELSE LET applicable_path == ScanConfigs(config_files, 1, target_date, None)
             IN  IF applicable_path = None THEN Some(config_files[Len(config_files)])
                 ELSE applicable_path

get_config_path_for_date(order, target_date) ==
    LET config_files == list_config_files(order)
    IN  IF config_files = <<>> THEN None
        ELSE LET applicable_path == ScanConfigs(config_files, 1, target_date, None)
             IN  IF applicable_path = None THEN Some(config_files[1]) ELSE applicable_path

load_config_for_date(order, target_date) ==
    LET config_path == get_config_path_for_date(order, target_date)
    IN  IF config_path = None THEN None ELSE Some(configs[config_path[1]])

\* config_<%Y%m%d_%H%M%S>.json: the file is named by the second of the instant
get_timestamped_config_path(timestamp) == timestamp

\* The snapshot save_config writes at instant t, and the directory after the write
StampedConfig(cfg, t) ==
    LET c1 == IF "created_at" \in DOMAIN cfg THEN cfg ELSE DictSet(cfg, "created_at", t)
        c2 == DictSet(c1, "updated_at", t)
    IN  DictSet(c2, "effective_from", t)

save_config(cfg, t) == DictSet(configs, get_timestamped_config_path(t), StampedConfig(cfg, t))

----------------------------------------------------------------------------
(* commands.py: weeks *)

\* f"{year}-W{week:02d}": the pair of the ISO year and the ISO week
get_week_number(date) == <<isocalendar(date)[1], isocalendar(date)[2]>>

\* get_week_start keeping the time of day of the date
get_week_start_same_time(date) ==
    LET days_since_monday == isocalendar(date)[3] - 1
    IN  At(DayOf(date) - days_since_monday, date % SecondsPerDay)

get_week_start(date) ==
    LET days_since_monday == isocalendar(date)[3] - 1
    IN  At(DayOf(date) - days_since_monday, 0)

get_week_end(date) ==
    At(DayOf(get_week_start(date)) + 6, SecondsPerDay - 1)

\* A time string "HH:MM" is the pair <<HH, MM>> of the numbers written in it;
\* parse_time raises (None) when time(hour, minute) rejects them
parse_time(time_str) ==
    IF Len(time_str) = 2 /\ time_str[1] \in 0..23 /\ time_str[2] \in 0..59
    THEN Some([hour |-> time_str[1], minute |-> time_str[2]])
    ELSE None

\* CountAdherent with a time 30 minutes from the goal not adhering
RECURSIVE CountAdherentWithin(_, _)
CountAdherentWithin(wake_up_times, goal_minutes) ==
    IF wake_up_times = <<>> THEN 0
    ELSE LET wake_time == parse_time(wake_up_times[1])
             wake_minutes == wake_time[1].hour * 60 + wake_time[1].minute
             hit == wake_time # None /\ Abs(wake_minutes - goal_minutes) < 30
         IN  (IF hit THEN 1 ELSE 0) + CountAdherentWithin(Tail(wake_up_times), goal_minutes)

\* The inner loop of calculate_wake_up_adherence: a time that does not parse is skipped
RECURSIVE CountAdherent(_, _)
CountAdherent(wake_up_times, goal_minutes) ==
    IF wake_up_times = <<>> THEN 0
    ELSE LET wake_time == parse_time(wake_up_times[1])
             wake_minutes == wake_time[1].hour * 60 + wake_time[1].minute
             hit == wake_time # None /\ Abs(wake_minutes - goal_minutes) <= 30
         IN  (IF hit THEN 1 ELSE 0) + CountAdherent(Tail(wake_up_times), goal_minutes)

\* <<adherence count, total count>>
calculate_wake_up_adherence(wake_up_times, wake_up_time_goal) ==
    LET wake_total == Len(wake_up_times)
        goal_time == parse_time(wake_up_time_goal)
    IN  IF wake_total > 0 /\ wake_up_time_goal # None /\ goal_time # None
        THEN <<CountAdherent(wake_up_times, goal_time[1].hour * 60 + goal_time[1].minute),
               wake_total>>
        ELSE <<0, wake_total>>

\* The bucket created when a week is first seen
NewBucket(checkin_date) ==
    [year |-> CalendarYear(DayOf(checkin_date)),
     week |-> isocalendar(checkin_date)[2],
     week_start |-> get_week_start(checkin_date),
     week_end |-> get_week_end(checkin_date),
     protein_values |-> <<>>, sleep_values |-> <<>>, calories_values |-> <<>>,
     cardio_values |-> <<>>, steps_values |-> <<>>, carbs_values |-> <<>>,
     fats_values |-> <<>>, fiber_values |-> <<>>, weight_values |-> <<>>,
     cooldown_count |-> 0, wake_up_times |-> <<>>, workout_count |-> 0]

\* AppendIfSet appending every value the check-in has, a 0 too
AppendIfPresent(bucket, values_key, checkin, key) ==
    IF key \in DOMAIN checkin
    THEN [bucket EXCEPT ![values_key] = Append(@, checkin[key])]
    ELSE bucket

\* if checkin.get(key): list.append(checkin[key]), for a numeric field (0 and a
\* missing key are both falsy)
AppendIfSet(bucket, values_key, checkin, key) ==
    IF Get(checkin, key, 0) # 0
    THEN [bucket EXCEPT ![values_key] = Append(@, checkin[key])]
    ELSE bucket

\* The body of the loop of calculate_weekly_summaries for one check-in
FoldCheckin(bucket, checkin) ==
    LET b1 == AppendIfSet(bucket, "sleep_values", checkin, "sleep_hours")
        cardio == Get(checkin, "cardio", <<>>)
        b2 == IF cardio # <<>> /\ Get(cardio, "duration_minutes", 0) # 0
              THEN [b1 EXCEPT !.cardio_values = Append(@, cardio.duration_minutes)]
              ELSE b1
        b3 == IF Get(checkin, "wake_up_time", None) # None
              THEN [b2 EXCEPT !.wake_up_times = Append(@, checkin.wake_up_time)]
              ELSE b2
        b4 == AppendIfSet(b3, "protein_values", checkin, "protein")
        b5 == AppendIfSet(b4, "calories_values", checkin, "calories")
        b6 == AppendIfSet(b5, "steps_values", checkin, "steps")
        b7 == AppendIfSet(b6, "carbs_values", checkin, "carbs")
        b8 == AppendIfSet(b7, "fats_values", checkin, "fats")
        b9 == AppendIfSet(b8, "fiber_values", checkin, "fiber")
        b10 == AppendIfSet(b9, "weight_values", checkin, "weight")
        b11 == IF Get(checkin, "cool_down", FALSE)
               THEN [b10 EXCEPT !.cooldown_count = @ + 1]
               ELSE b10
    IN  IF Get(checkin, "workout", None) # None
        THEN [b11 EXCEPT !.workout_count = @ + 1]
        ELSE b11

\* week id -> bucket, folding the check-ins in the order given
RECURSIVE calculate_weekly_summaries(_)
calculate_weekly_summaries(cs) ==
    IF cs = <<>> THEN <<>>
    ELSE LET weeks == calculate_weekly_summaries(SubSeq(cs, 1, Len(cs) - 1))
             checkin == cs[Len(cs)]
             checkin_date == checkin.timestamp
             week_id == get_week_number(checkin_date)
             bucket == IF week_id \in DOMAIN weeks THEN weeks[week_id]
                       ELSE NewBucket(checkin_date)
         IN  [w \in DOMAIN weeks \cup {week_id} |->
                 IF w = week_id THEN FoldCheckin(bucket, checkin) ELSE weeks[w]]

----------------------------------------------------------------------------
(* commands.py: evaluation of a week against a snapshot *)

\* check_goal.  A number is the pair [num, den] of a sum and a count; bottom_pct and
\* top_pct are whole percentages (0.01 is 1), top_pct = None for no upper bound.
\* check_goal without the early return for a metric with no values
check_goal_no_return(wd, cfg, data_key, goal_key, agg, bottom_pct, top_pct) ==
    LET goal == Get(cfg, goal_key, 0)
        values == Get(wd, data_key, <<>>)
        actual == IF agg = "count" THEN [num |-> Get(wd, data_key, 0), den |-> 1]
                  ELSE IF agg = "avg" THEN [num |-> SumSeq(values), den |-> Len(values)]
                  ELSE [num |-> SumSeq(values), den |-> 1]
        lower_ok == goal * (100 - bottom_pct) * actual.den <= 100 * actual.num
        upper_ok == top_pct = None
                    \/ 100 * actual.num <= goal * (100 + top_pct[1]) * actual.den
        met == IF goal > 0 THEN Some(lower_ok /\ upper_ok) ELSE None
    IN  [met |-> met, goal |-> goal, actual |-> Some(actual)]

\* check_goal with no upper bound, whatever top_pct
check_goal_no_upper(wd, cfg, data_key, goal_key, agg, bottom_pct, top_pct) ==
    LET goal == Get(cfg, goal_key, 0)
        values == Get(wd, data_key, <<>>)
        actual == IF agg = "count" THEN [num |-> Get(wd, data_key, 0), den |-> 1]
                  ELSE IF agg = "avg" THEN [num |-> SumSeq(values), den |-> Len(values)]
                  ELSE [num |-> SumSeq(values), den |-> 1]
        lower_ok == goal * (100 - bottom_pct) * actual.den <= 100 * actual.num
        upper_ok == TRUE
        met == IF goal > 0 THEN Some(lower_ok /\ upper_ok) ELSE None
    IN  IF agg # "count" /\ values = <<>>
        THEN [met |-> None, goal |-> goal, actual |-> None]
        ELSE [met |-> met, goal |-> goal, actual |-> Some(actual)]

\* check_goal with the lower bound exclusive
check_goal_exclusive(wd, cfg, data_key, goal_key, agg, bottom_pct, top_pct) ==
    LET goal == Get(cfg, goal_key, 0)
        values == Get(wd, data_key, <<>>)
        actual == IF agg = "count" THEN [num |-> Get(wd, data_key, 0), den |-> 1]
                  ELSE IF agg = "avg" THEN [num |-> SumSeq(values), den |-> Len(values)]
                  ELSE [num |-> SumSeq(values), den |-> 1]
        lower_ok == goal * (100 - bottom_pct) * actual.den < 100 * actual.num
        upper_ok == top_pct = None
                    \/ 100 * actual.num <= goal * (100 + top_pct[1]) * actual.den
        met == IF goal > 0 THEN Some(lower_ok /\ upper_ok) ELSE None
    IN  IF agg # "count" /\ values = <<>>
        THEN [met |-> None, goal |-> goal, actual |-> None]
        ELSE [met |-> met, goal |-> goal, actual |-> Some(actual)]

\* check_goal taking a goal of 1 for a goal the snapshot does not have
check_goal_default_goal(wd, cfg, data_key, goal_key, agg, bottom_pct, top_pct) ==
    LET goal == Get(cfg, goal_key, 1)
        values == Get(wd, data_key, <<>>)
        actual == IF agg = "count" THEN [num |-> Get(wd, data_key, 0), den |-> 1]
                  ELSE IF agg = "avg" THEN [num |-> SumSeq(values), den |-> Len(values)]
                  ELSE [num |-> SumSeq(values), den |-> 1]
        lower_ok == goal * (100 - bottom_pct) * actual.den <= 100 * actual.num
        upper_ok == top_pct = None
                    \/ 100 * actual.num <= goal * (100 + top_pct[1]) * actual.den
        met == IF goal > 0 THEN Some(lower_ok /\ upper_ok) ELSE None
    IN  IF agg # "count" /\ values = <<>>
        THEN [met |-> None, goal |-> goal, actual |-> None]
        ELSE [met |-> met, goal |-> goal, actual |-> Some(actual)]

check_goal(wd, cfg, data_key, goal_key, agg, bottom_pct, top_pct) ==
    LET goal == Get(cfg, goal_key, 0)
        values == Get(wd, data_key, <<>>)
        actual == IF agg = "count" THEN [num |-> Get(wd, data_key, 0), den |-> 1]
                  ELSE IF agg = "avg" THEN [num |-> SumSeq(values), den |-> Len(values)]
                  ELSE [num |-> SumSeq(values), den |-> 1]
        lower_ok == goal * (100 - bottom_pct) * actual.den <= 100 * actual.num
        upper_ok == top_pct = None
                    \/ 100 * actual.num <= goal * (100 + top_pct[1]) * actual.den
        met == IF goal > 0 THEN Some(lower_ok /\ upper_ok) ELSE None
    IN  IF agg # "count" /\ values = <<>>
        THEN [met |-> None, goal |-> goal, actual |-> None]
        ELSE [met |-> met, goal |-> goal, actual |-> Some(actual)]

\* The wake_up entry of goals_info; its actual is the list of times (never None),
\* its adherence f"{wake_adherence}/{wake_total}" the pair of the two counts
WakeUpGoal(wd, cfg) ==
    LET wake_up_times == Get(wd, "wake_up_times", <<>>)
        wake_up_time_goal == Get(cfg, "wake_up_time_goal", None)
        adh == calculate_wake_up_adherence(wake_up_times, wake_up_time_goal)
    IN  IF adh[2] > 0
        THEN [met |-> Some(adh[1] * 100 >= 80 * adh[2]), goal |-> wake_up_time_goal,
              actual |-> Some(wake_up_times), adherence |-> adh]
        ELSE [met |-> None, goal |-> wake_up_time_goal, actual |-> Some(<<>>),
              adherence |-> <<0, 0>>]

check_goals_for_week(wd, week_checkins, cfg) ==
    [workouts |-> check_goal(wd, cfg, "workout_count", "workouts_per_week", "count", 0, None),
     cardio |-> check_goal(wd, cfg, "cardio_values", "weekly_cardio_time_goal", "sum", 0, None),
     protein |-> check_goal(wd, cfg, "protein_values", "weekly_protein_goal", "avg", 1, Some(10)),
     calories |-> check_goal(wd, cfg, "calories_values", "weekly_calorie_goal", "avg", 5, Some(2)),
     steps |-> check_goal(wd, cfg, "steps_values", "weekly_steps_goal", "avg", 0, Some(50)),
     carbs |-> check_goal(wd, cfg, "carbs_values", "weekly_carbs_goal", "avg", 5, Some(10)),
     fats |-> check_goal(wd, cfg, "fats_values", "weekly_fats_goal", "avg", 10, Some(5)),
     fiber |-> check_goal(wd, cfg, "fiber_values", "weekly_fiber_goal", "avg", 0, Some(200)),
     cooldown |-> check_goal(wd, cfg, "cooldown_count", "weekly_cooldown_goal", "count", 0, None),
     sleep |-> check_goal(wd, cfg, "sleep_values", "daily_sleep_goal", "avg", 0, None),
     wake_up |-> WakeUpGoal(wd, cfg)]

\* check_goals_for_week also stores the adherence counts in the bucket it was given
WeekDataAfterCheck(wd, cfg) ==
    LET adh == calculate_wake_up_adherence(Get(wd, "wake_up_times", <<>>),
                                           Get(cfg, "wake_up_time_goal", None))
    IN  DictSet(DictSet(wd, "wake_up_adherence", adh[1]), "wake_up_total", adh[2])

\* <<goals_met, total_goals, percentage>>, the percentage as [num, den]
\* calculate_weekly_score counting every metric as applicable, null or not
calculate_weekly_score_all(info) ==
    LET hit == {k \in DOMAIN info : info[k].met = Some(TRUE)}
        total_goals == Cardinality(DOMAIN info)
        goals_met == Cardinality(hit)
    IN  <<goals_met, total_goals, [num |-> goals_met * 100, den |-> total_goals]>>

calculate_weekly_score(info) ==
    LET counted == {k \in DOMAIN info : info[k].met # None}
        hit == {k \in counted : info[k].met[1]}
        total_goals == Cardinality(counted)
        goals_met == Cardinality(hit)
    IN  <<goals_met, total_goals,
          IF total_goals > 0 THEN [num |-> goals_met * 100, den |-> total_goals]
          ELSE [num |-> 0, den |-> 1]>>

\* percentage >= cutoff, for percentage = [num, den]
AtLeast(percentage, cutoff) == percentage.num >= cutoff * percentage.den

\* calculate_letter_grade with every cutoff exclusive
calculate_letter_grade_above(percentage) ==
    LET Above(cutoff) == percentage.num > cutoff * percentage.den
    IN  IF Above(97) THEN "A+"
        ELSE IF Above(93) THEN "A"
        ELSE IF Above(90) THEN "A-"
        ELSE IF Above(87) THEN "B+"
        ELSE IF Above(83) THEN "B"
        ELSE IF Above(80) THEN "B-"
        ELSE IF Above(77) THEN "C+"
        ELSE IF Above(73) THEN "C"
        ELSE IF Above(70) THEN "C-"
        ELSE IF Above(67) THEN "D+"
        ELSE IF Above(63) THEN "D"
        ELSE IF Above(60) THEN "D-"
        ELSE "F"

calculate_letter_grade(percentage) ==
    IF AtLeast(percentage, 97) THEN "A+"
    ELSE IF AtLeast(percentage, 93) THEN "A"
    ELSE IF AtLeast(percentage, 90) THEN "A-"
    ELSE IF AtLeast(percentage, 87) THEN "B+"
    ELSE IF AtLeast(percentage, 83) THEN "B"
    ELSE IF AtLeast(percentage, 80) THEN "B-"
    ELSE IF AtLeast(percentage, 77) THEN "C+"
    ELSE IF AtLeast(percentage, 73) THEN "C"
    ELSE IF AtLeast(percentage, 70) THEN "C-"
    ELSE IF AtLeast(percentage, 67) THEN "D+"
    ELSE IF AtLeast(percentage, 63) THEN "D"
    ELSE IF AtLeast(percentage, 60) THEN "D-"
    ELSE "F"

----------------------------------------------------------------------------
(* commands.py: the weekly report of data_command *)

RECURSIVE SumOver(_, _)
SumOver(f, S) ==
    IF S = {} THEN 0
    ELSE LET x == CHOOSE y \in S : TRUE IN f[x] + SumOver(f, S \ {x})

\* The first loop of data_command: the adherence counts of each week against the
\* snapshot resolved at the week's start
PreCalculated(weeks, order, cfg) ==
    [w \in DOMAIN weeks |->
        LET found == load_config_for_date(order, weeks[w].week_start)
            week_config == IF found = None THEN cfg ELSE found[1]
        IN  calculate_wake_up_adherence(Get(weeks[w], "wake_up_times", <<>>),
                                        Get(week_config, "wake_up_time_goal", None))]

\* What display_weekly_metrics shows as the grade of a week
\* GradeShown grading a week with no applicable goal from its 0%
GradeShownAlways(info, is_current_week) ==
    LET score == calculate_weekly_score(info)
    IN  IF is_current_week /\ score[2] > 0 THEN "in progress"
        ELSE calculate_letter_grade(score[3])

GradeShown(info, is_current_week) ==
    LET score == calculate_weekly_score(info)
    IN  IF score[2] > 0
        THEN IF is_current_week THEN "in progress" ELSE calculate_letter_grade(score[3])
        ELSE "none"

\* The second loop of data_command, for one week
\* WeekReport resolving the snapshot at the start of the week
WeekReportAtStart(cs, weeks, week_id, order, cfg, t) ==
    LET week_checkins == SelectSeq(cs, LAMBDA c : get_week_number(c.timestamp) = week_id)
        bucket == DictSet(weeks[week_id], "session_count", Len(week_checkins))
        found == load_config_for_date(order, bucket.week_start)
        week_config == IF found = None THEN cfg ELSE found[1]
        week_config_path == IF found = None THEN get_config_path(order)
                            ELSE get_config_path_for_date(order, bucket.week_start)
        info == check_goals_for_week(bucket, week_checkins, week_config)
        score == calculate_weekly_score(info)
    IN  [week_data |-> WeekDataAfterCheck(bucket, week_config),
         config_path |-> week_config_path,
         config |-> week_config,
         goals_info |-> info,
         goals_met |-> score[1],
         total_goals |-> score[2],
         percentage |-> score[3],
         grade |-> GradeShown(info, week_id = get_week_number(t))]

\* WeekReport counting as sessions the check-ins that record a workout
WeekReportWorkouts(cs, weeks, week_id, order, cfg, t) ==
    LET week_checkins == SelectSeq(cs, LAMBDA c : get_week_number(c.timestamp) = week_id)
        bucket == DictSet(weeks[week_id], "session_count", weeks[week_id].workout_count)
        found == load_config_for_date(order, bucket.week_end)
        week_config == IF found = None THEN cfg ELSE found[1]
        week_config_path == IF found = None THEN get_config_path(order)
                            ELSE get_config_path_for_date(order, bucket.week_end)
        info == check_goals_for_week(bucket, week_checkins, week_config)
        score == calculate_weekly_score(info)
    IN  [week_data |-> WeekDataAfterCheck(bucket, week_config),
         config_path |-> week_config_path,
         config |-> week_config,
         goals_info |-> info,
         goals_met |-> score[1],
         total_goals |-> score[2],
         percentage |-> score[3],
         grade |-> GradeShown(info, week_id = get_week_number(t))]

WeekReport(cs, weeks, week_id, order, cfg, t) ==
    LET week_checkins == SelectSeq(cs, LAMBDA c : get_week_number(c.timestamp) = week_id)
        bucket == DictSet(weeks[week_id], "session_count", Len(week_checkins))
        found == load_config_for_date(order, bucket.week_end)
        week_config == IF found = None THEN cfg ELSE found[1]
        week_config_path == IF found = None THEN get_config_path(order)
                            ELSE get_config_path_for_date(order, bucket.week_end)
        info == check_goals_for_week(bucket, week_checkins, week_config)
        score == calculate_weekly_score(info)
    IN  [week_data |-> WeekDataAfterCheck(bucket, week_config),
         config_path |-> week_config_path,
         config |-> week_config,
         goals_info |-> info,
         goals_met |-> score[1],
         total_goals |-> score[2],
         percentage |-> score[3],
         grade |-> GradeShown(info, week_id = get_week_number(t))]

\* Everything data_command derives from the log cs at instant t, the directory being
\* listed in the given order and cfg being the latest snapshot
DataReport(cs, order, cfg, t) ==
    LET weeks == calculate_weekly_summaries(cs)
        pre == PreCalculated(weeks, order, cfg)
    IN  [days_recorded |-> Len(cs),
         wake_adherence |-> SumOver([w \in DOMAIN weeks |-> pre[w][1]], DOMAIN weeks),
         wake_total |-> SumOver([w \in DOMAIN weeks |-> pre[w][2]], DOMAIN weeks),
         weeks |-> [w \in DOMAIN weeks |-> WeekReport(cs, weeks, w, order, cfg, t)]]

----------------------------------------------------------------------------
(* The command line: what the user and the clock supply *)

\* The instants at which commands run: 2025-01-01 00:00:00, Sunday 2025-01-19 at
\* its last second and Monday 2025-01-20 00:00:00
ClockInstants == {At(366, 0), At(384, SecondsPerDay - 1), At(385, 0)}

\* The answers to the goal prompts of init and goals --update: the defaults and
\* another set of goals
DefaultGoals ==
    [workouts_per_week |-> 4, wake_up_time_goal |-> <<6, 30>>, daily_sleep_goal |-> 8,
     weekly_cardio_time_goal |-> 150, weekly_protein_goal |-> 150,
     weekly_calorie_goal |-> 2500, weekly_steps_goal |-> 10000,
     weekly_carbs_goal |-> 250, weekly_fats_goal |-> 70, weekly_fiber_goal |-> 30,
     weekly_cooldown_goal |-> 4]

OtherGoals ==
    [DefaultGoals EXCEPT !.workouts_per_week = 5, !.wake_up_time_goal = <<5, 30>>,
                         !.weekly_cardio_time_goal = 0]

GoalInputs == {DefaultGoals, OtherGoals}

\* The answers to the prompts of checkin: a training day and a rest day
TrainingDay ==
    [wake_up_time |-> <<5, 30>>, sleep_hours |-> 8, did_workout |-> TRUE,
     cardio_minutes |-> Some(30), calories |-> 2500, carbs |-> 250, fats |-> 70,
     protein |-> 150, fiber |-> 30, weight |-> 180, steps |-> 10000, cool_down |-> TRUE]

RestDay ==
    [wake_up_time |-> <<7, 0>>, sleep_hours |-> 6, did_workout |-> FALSE,
     cardio_minutes |-> None, calories |-> 0, carbs |-> 0, fats |-> 0,
     protein |-> 120, fiber |-> 0, weight |-> 0, steps |-> 0, cool_down |-> FALSE]

CheckinInputs == {TrainingDay, RestDay}

\* The answer to the backfill date prompt: nothing, or a date (2024-12-31)
BackfillInputs == {None, Some(365)}

\* parse_backfill_date: 17:00 of the date
parse_backfill_date(day) == At(day, (17 * SecondsPerDay) \div 24)

\* The goal prompts of init and goals --update write their answers into cfg; no
\* dict (None) when the wake-up time does not parse
PromptGoals(cfg, answers) ==
    LET wake == parse_time(answers.wake_up_time_goal)
        set(c, k) == DictSet(c, k, answers[k])
        c1 == set(cfg, "workouts_per_week")
        c2 == DictSet(c1, "wake_up_time_goal", <<wake[1].hour, wake[1].minute>>)
        c3 == set(set(set(c2, "daily_sleep_goal"), "weekly_cardio_time_goal"),
                  "weekly_protein_goal")
        c4 == set(set(set(c3, "weekly_calorie_goal"), "weekly_steps_goal"),
                  "weekly_carbs_goal")
    IN  IF wake = None THEN None
        ELSE Some(set(set(set(c4, "weekly_fats_goal"), "weekly_fiber_goal"),
                      "weekly_cooldown_goal"))

\* The record checkin_command builds from the answers
CheckinRecord(timestamp, answers) ==
    [timestamp |-> timestamp,
     wake_up_time |-> answers.wake_up_time,
     sleep_hours |-> answers.sleep_hours,
     workout |-> IF answers.did_workout
                 THEN Some([week |-> 1, day |-> 1,
                            primary_lifts |-> [squat |-> [weight |-> 175, reps |-> 5]]])
                 ELSE None,
     cardio |-> IF answers.cardio_minutes # None
                THEN [medium |-> "incline treadmill",
                      duration_minutes |-> answers.cardio_minutes[1], zone |-> 3]
                ELSE <<>>,
     calories |-> answers.calories, carbs |-> answers.carbs, fats |-> answers.fats,
     protein |-> answers.protein, fiber |-> answers.fiber, weight |-> answers.weight,
     steps |-> answers.steps, cool_down |-> answers.cool_down]

Out(cmd, exit, report) == [cmd |-> cmd, exit |-> exit, report |-> report]

\* checkin_command putting the record at the head of the log
RecordCheckinFirst(log, checkin, dry_run) == IF dry_run THEN log ELSE <<checkin>> \o log

\* checkin_command saving the record under --dry-run too
RecordCheckinAlways(log, checkin, dry_run) == Append(log, checkin)

\* The end of checkin_command: data["checkins"].append(checkin) and save_data(data),
\* unless --dry-run, which only prints the record
RecordCheckin(log, checkin, dry_run) == IF dry_run THEN log ELSE Append(log, checkin)

\* week_checkins.sort(key=lambda c: c["timestamp"]): stable, earliest first
RECURSIVE SortCheckins(_)
SortCheckins(cs) ==
    IF cs = <<>> THEN <<>>
    ELSE LET i == CHOOSE k \in 1..Len(cs) :
                      /\ \A j \in 1..Len(cs) : cs[k].timestamp <= cs[j].timestamp
                      /\ \A j \in 1..(k - 1) : cs[j].timestamp # cs[k].timestamp
         IN  <<cs[i]>> \o SortCheckins(SubSeq(cs, 1, i - 1) \o SubSeq(cs, i + 1, Len(cs)))

\* format_week_for_spreadsheet: a message, or the rows protein, carbs, fiber, fats,
\* calories, cardio, steps and weight with one cell per check-in of the week; a cell
\* is the number it prints, the empty cell of a weight not recorded is None
format_week_for_spreadsheet(cs, week_id, t) ==
    LET target == IF week_id = None THEN get_week_number(t) ELSE week_id[1]
        week_checkins ==
            SortCheckins(SelectSeq(cs, LAMBDA c : get_week_number(c.timestamp) = target))
        Row(key) == [i \in 1..Len(week_checkins) |-> Some(Get(week_checkins[i], key, 0))]
        cardio(c) == Get(c, "cardio", <<>>)
    IN  IF cs = <<>> THEN [message |-> "No check-ins recorded yet.", rows |-> <<>>]
        ELSE IF week_checkins = <<>>
        THEN [message |-> "No check-ins found for week", rows |-> <<>>]
        ELSE [message |-> "",
              rows |-> <<Row("protein"), Row("carbs"), Row("fiber"), Row("fats"),
                         Row("calories"),
                         [i \in 1..Len(week_checkins) |->
                             Some(IF cardio(week_checkins[i]) # <<>>
                                  THEN Get(cardio(week_checkins[i]), "duration_minutes", 0)
                                  ELSE 0)],
                         Row("steps"),
                         [i \in 1..Len(week_checkins) |->
                             IF Get(week_checkins[i], "weight", 0) # 0
                             THEN Some(week_checkins[i].weight) ELSE None]>>]

\* The --week option of export: not given, or a week id
ExportWeeks == {None, Some(<<2025, 1>>)}

----------------------------------------------------------------------------
(* The commands *)

Init ==
    /\ now = At(366, 0)
    /\ configs = <<>>
    /\ checkins = <<>>
    /\ saved = <<>>
    /\ output = Out("none", 0, None)
    /\ data_file = None
    /\ data = None
    /\ block = None
    /\ primary_lifts = <<>>
    /\ lift = ""
    /\ week_data = <<>>
    /\ config = <<>>
    /\ goals_info = <<>>
    /\ week_is_current = FALSE
    /\ weekly_score = <<>>
    /\ grade_input = <<>>
    /\ grade_shown = "none"
    /\ week_input = 0
    /\ week_bounds = <<>>
    /\ pc = "cli"

\* save_config at instant t, with the history of saves
Save(cfg, t) ==
    /\ configs' = save_config(cfg, t)
    /\ saved' = Append(saved, [file |-> get_timestamped_config_path(t),
                               snapshot |-> StampedConfig(cfg, t)])

\* What load_config can return, over the orders in which the directory can be listed
LoadedConfigs == {load_config(order) : order \in GlobOrders}

\* What list_config_files can return, over the orders in which the directory can be
\* listed
ListedConfigs == {list_config_files(order) : order \in GlobOrders}

\* toobuff init running the setup dialogue whether or not a snapshot is stored
init_command_setup_again ==
    \E t \in ClockInstants, answers \in GoalInputs :
        LET entered == PromptGoals(<<>>, answers)
        IN  /\ t >= now
            /\ now' = t
            /\ IF entered = None
               THEN /\ output' = Out("init", 2, None)
                    /\ UNCHANGED <<configs, saved>>
               ELSE /\ Len(saved) < MaxSaves
                    /\ Save(entered[1], t)
                    /\ output' = Out("init", 0, None)
            /\ UNCHANGED <<checkins, evalVars>>

\* toobuff init
init_command ==
    \E t \in ClockInstants, existing_config \in LoadedConfigs, answers \in GoalInputs :
        LET entered == PromptGoals(<<>>, answers)
        IN  /\ t >= now
            /\ now' = t
            /\ existing_config # None => answers = DefaultGoals
            /\ IF existing_config # None
               THEN /\ output' = Out("init", 0, None)
                    /\ UNCHANGED <<configs, saved>>
               ELSE IF entered = None
               THEN /\ output' = Out("init", 2, None)
                    /\ UNCHANGED <<configs, saved>>
               ELSE /\ Len(saved) < MaxSaves
                    /\ Save(entered[1], t)
                    /\ output' = Out("init", 0, None)
            /\ UNCHANGED <<checkins, evalVars>>

\* toobuff goals [--update]
goals_command ==
    \E t \in ClockInstants, loaded \in LoadedConfigs, update \in BOOLEAN,
       answers \in GoalInputs :
        LET entered == PromptGoals(loaded[1], answers)
        IN  /\ t >= now
            /\ now' = t
            /\ (loaded = None \/ ~update) => answers = DefaultGoals
            /\ IF loaded = None
               THEN /\ output' = Out("goals", 1, None)
                    /\ UNCHANGED <<configs, saved>>
               ELSE IF ~update
               THEN /\ output' = Out("goals", 0, None)
                    /\ UNCHANGED <<configs, saved>>
               ELSE IF entered = None
               THEN /\ output' = Out("goals", 2, None)
                    /\ UNCHANGED <<configs, saved>>
               ELSE /\ Len(saved) < MaxSaves
                    /\ Save(entered[1], t)
                    /\ output' = Out("goals", 0, None)
            /\ UNCHANGED <<checkins, evalVars>>

\* toobuff checkin [--backfill] [--dry-run]
checkin_command ==
    \E t \in ClockInstants, loaded \in LoadedConfigs, backfill \in BOOLEAN,
       dry_run \in BOOLEAN, date_str \in BackfillInputs, answers \in CheckinInputs :
        LET checkin_timestamp == IF backfill THEN parse_backfill_date(date_str[1]) ELSE t
            checkin == CheckinRecord(checkin_timestamp, answers)
        IN  /\ t >= now
            /\ now' = t
            /\ ~backfill => date_str = None
            /\ (loaded = None \/ (backfill /\ date_str = None))
                   => (answers = RestDay /\ ~dry_run)
            /\ IF loaded = None
               THEN /\ output' = Out("checkin", 1, None)
                    /\ UNCHANGED checkins
               ELSE IF backfill /\ date_str = None
               THEN /\ output' = Out("checkin", 1, None)
                    /\ UNCHANGED checkins
               ELSE IF dry_run
               THEN /\ output' = Out("checkin", 0, Some("DRY RUN"))
                    /\ checkins' = RecordCheckin(checkins, checkin, dry_run)
               ELSE /\ Len(checkins) < MaxCheckins
                    /\ checkins' = RecordCheckin(checkins, checkin, dry_run)
                    /\ output' = Out("checkin", 0, None)
            /\ UNCHANGED <<configs, saved, evalVars>>

\* toobuff data
data_command ==
    \E t \in ClockInstants, order \in ListedConfigs :
        LET loaded == load_config(order)
        IN  /\ t >= now
            /\ now' = t
            /\ IF loaded = None
               THEN output' = Out("data", 1, None)
               ELSE IF checkins = <<>>
               THEN output' = Out("data", 0, None)
               ELSE output' = Out("data", 0, Some(DataReport(checkins, order, loaded[1], t)))
            /\ UNCHANGED <<configs, checkins, saved, evalVars>>

\* toobuff export [--week]; the clock is read for the current week, at the
\* instant the previous command left
export_command ==
    \E t \in {now}, loaded \in LoadedConfigs, week \in ExportWeeks :
        /\ now' = t
        /\ IF loaded = None
           THEN output' = Out("export", 1, None)
           ELSE output' = Out("export", 0,
                              Some(format_week_for_spreadsheet(checkins, week, t)))
        /\ UNCHANGED <<configs, checkins, saved, evalVars>>

Next ==
    init_command \/ goals_command \/ checkin_command \/ data_command \/ export_command

Spec == Init /\ [][Next]_vars

SpecStore == Init /\ [][init_command \/ goals_command]_vars

----------------------------------------------------------------------------
(* check_goals_for_week on its own: a bucket and a snapshot drawn from bounded sets *)

\* Recorded values of a metric, around the tolerance bounds of the goals 100 and 150
EvalValues ==
    {89, 90, 94, 95, 98, 99, 100, 102, 103, 105, 106, 110, 111, 147, 148, 149, 150,
     151, 300, 301}

\* A goal of a snapshot: the key missing (None), or its value
EvalGoals == {None, Some(0), Some(100), Some(150)}

CountGoals == {None, Some(0), Some(1), Some(2)}

WakeTimes == {<<5, 30>>, <<5, 45>>, <<7, 0>>, <<25, 0>>}

WakeGoals == {None, Some(<<5, 30>>), Some(<<5, 15>>), Some(<<5, 14>>), Some(<<24, 0>>)}

SeqsUpTo(S, n) == UNION {[1..k -> S] : k \in 0..n}

ListKeys ==
    {"protein_values", "sleep_values", "calories_values", "cardio_values",
     "steps_values", "carbs_values", "fats_values", "fiber_values", "weight_values"}

ListGoalKeys ==
    {"daily_sleep_goal", "weekly_cardio_time_goal", "weekly_protein_goal",
     "weekly_calorie_goal", "weekly_steps_goal", "weekly_carbs_goal",
     "weekly_fats_goal", "weekly_fiber_goal"}

CountGoalKeys == {"workouts_per_week", "weekly_cooldown_goal"}

\* The bucket of the week of 2025-01-01 with every list holding the values vs, both
\* counters at count and the wake-up times wake
EvalBucket(vs, count, wake) ==
    LET b == NewBucket(At(366, 0))
    IN  [k \in DOMAIN b |->
            IF k \in ListKeys THEN vs
            ELSE IF k \in {"workout_count", "cooldown_count"} THEN count
            ELSE IF k = "wake_up_times" THEN wake
            ELSE b[k]]

\* A snapshot whose list goals are g, count goals gc and wake-up goal gw, a goal of
\* None being a key the snapshot does not have
EvalConfig(g, gc, gw) ==
    LET keys == (IF g = None THEN {} ELSE ListGoalKeys)
                \cup (IF gc = None THEN {} ELSE CountGoalKeys)
                \cup (IF gw = None THEN {} ELSE {"wake_up_time_goal"})
    IN  [k \in keys |->
            IF k \in ListGoalKeys THEN g[1]
            ELSE IF k \in CountGoalKeys THEN gc[1]
            ELSE gw[1]]

InitEval ==
    /\ now = At(366, 0)
    /\ configs = <<>>
    /\ checkins = <<>>
    /\ saved = <<>>
    /\ output = Out("none", 0, None)
    /\ data_file = None
    /\ data = None
    /\ block = None
    /\ primary_lifts = <<>>
    /\ lift = ""
    /\ goals_info = <<>>
    /\ week_is_current = FALSE
    /\ weekly_score = <<>>
    /\ grade_input = <<>>
    /\ grade_shown = "none"
    /\ week_input = 0
    /\ week_bounds = <<>>
    /\ pc = "input"
    /\ \/ \E vs \in SeqsUpTo(EvalValues, MaxValues), g \in EvalGoals :
            /\ week_data = EvalBucket(vs, 0, <<>>)
            /\ config = EvalConfig(g, Some(4), Some(<<6, 30>>))
       \/ \E count \in 0..MaxCount, gc \in CountGoals :
            /\ week_data = EvalBucket(<<>>, count, <<>>)
            /\ config = EvalConfig(Some(100), gc, Some(<<6, 30>>))
       \/ \E wake \in SeqsUpTo(WakeTimes, MaxWake), gw \in WakeGoals :
            /\ week_data = EvalBucket(<<>>, 0, wake)
            /\ config = EvalConfig(Some(100), Some(4), gw)

\* goals_info = check_goals_for_week(week_data, week_checkins, config), followed by
\* the score and the grade display_weekly_metrics derives from it
evaluate ==
    \E is_current_week \in BOOLEAN :
        /\ pc = "input"
        /\ goals_info' = check_goals_for_week(week_data, <<>>, config)
        /\ week_data' = WeekDataAfterCheck(week_data, config)
        /\ week_is_current' = is_current_week
        /\ weekly_score' = calculate_weekly_score(goals_info')
        /\ grade_shown' = GradeShown(goals_info', is_current_week)
        /\ pc' = "done"
        /\ UNCHANGED <<config, grade_input, week_input, week_bounds, cliVars, dataVars, dialogVars>>

SpecEval == InitEval /\ [][evaluate]_vars

----------------------------------------------------------------------------
(* calculate_letter_grade on its own: a percentage drawn from [0, 100] *)

\* The percentages from 0 to 100 in steps of 1 / GradeSteps
GradeInputs == {[num |-> k, den |-> GradeSteps] : k \in 0..(100 * GradeSteps)}

InitGrade ==
    /\ now = At(366, 0)
    /\ configs = <<>>
    /\ checkins = <<>>
    /\ saved = <<>>
    /\ output = Out("none", 0, None)
    /\ data_file = None
    /\ data = None
    /\ block = None
    /\ primary_lifts = <<>>
    /\ lift = ""
    /\ week_data = <<>>
    /\ config = <<>>
    /\ goals_info = <<>>
    /\ week_is_current = FALSE
    /\ weekly_score = <<>>
    /\ grade_input \in GradeInputs
    /\ grade_shown = "none"
    /\ week_input = 0
    /\ week_bounds = <<>>
    /\ pc = "percentage"

\* grade = calculate_letter_grade(percentage)
grade_percentage ==
    /\ pc = "percentage"
    /\ grade_shown' = calculate_letter_grade(grade_input)
    /\ pc' = "graded"
    /\ UNCHANGED <<week_data, config, goals_info, week_is_current, weekly_score,
                   grade_input, week_input, week_bounds, cliVars, dataVars, dialogVars>>

SpecGrade == InitGrade /\ [][grade_percentage]_vars

----------------------------------------------------------------------------
(* The week functions on their own: a date drawn from a span of years *)

\* Every instant from Monday 2024-12-23 00:00:00 on, for MaxDays days more: the
\* turns of 2024, 2025 and 2026, the last of which has an ISO week 53
WeekDates == At(357, 0)..At(357 + MaxDays, SecondsPerDay - 1)

InitWeek ==
    /\ now = At(366, 0)
    /\ configs = <<>>
    /\ checkins = <<>>
    /\ saved = <<>>
    /\ output = Out("none", 0, None)
    /\ data_file = None
    /\ data = None
    /\ block = None
    /\ primary_lifts = <<>>
    /\ lift = ""
    /\ week_data = <<>>
    /\ config = <<>>
    /\ goals_info = <<>>
    /\ week_is_current = FALSE
    /\ weekly_score = <<>>
    /\ grade_input = <<>>
    /\ grade_shown = "none"
    /\ week_input \in WeekDates
    /\ week_bounds = <<>>
    /\ pc = "date"

\* The week identifier, start and end calculate_weekly_summaries takes for a date
week_of_date ==
    /\ pc = "date"
    /\ week_bounds' = [week_id |-> get_week_number(week_input),
                       week_start |-> get_week_start(week_input),
                       week_end |-> get_week_end(week_input)]
    /\ pc' = "week"
    /\ UNCHANGED <<week_data, config, goals_info, week_is_current, weekly_score,
                   grade_input, grade_shown, week_input, cliVars, dataVars, dialogVars>>

SpecWeek == InitWeek /\ [][week_of_date]_vars

----------------------------------------------------------------------------
(* calculate_weekly_summaries and check_goals_for_week on a stored log: records *)
(* of older versions without some of their fields, and records with zeros      *)

\* The fields of a check-in other than its timestamp, and the numeric ones (the
\* duration of the cardio is inside the field cardio)
CheckinFields ==
    {"wake_up_time", "sleep_hours", "workout", "cardio", "calories", "carbs", "fats",
     "protein", "fiber", "weight", "steps", "cool_down"}

NumericFields ==
    {"sleep_hours", "cardio", "calories", "carbs", "fats", "protein", "fiber", "weight",
     "steps"}

Restrict(d, keys) == [k \in keys |-> d[k]]

\* The check-in with a 0 in the given numeric fields
WithZeros(checkin, fields) ==
    [k \in DOMAIN checkin |->
        IF k \notin fields THEN checkin[k]
        ELSE IF k = "cardio" THEN [checkin[k] EXCEPT !.duration_minutes = 0]
        ELSE 0]

\* A training day of Sunday 2025-01-19 with any of its fields missing, or with a 0
\* in any of its numeric fields
SparseCheckins ==
    {Restrict(CheckinRecord(At(384, 0), TrainingDay), fields \cup {"timestamp"}) :
        fields \in SUBSET CheckinFields}

ZeroCheckins ==
    {WithZeros(CheckinRecord(At(384, 0), TrainingDay), fields) :
        fields \in SUBSET NumericFields}

\* A log of one such check-in, alone or after a full training day of the Saturday
StoredLogs ==
    {<<checkin>> : checkin \in SparseCheckins \cup ZeroCheckins}
        \cup {<<CheckinRecord(At(383, 0), TrainingDay), checkin>> :
                  checkin \in SparseCheckins \cup ZeroCheckins}

\* The default goals with any of them missing
SparseConfigs == {Restrict(DefaultGoals, keys) : keys \in SUBSET DOMAIN DefaultGoals}

InitFold ==
    /\ now = At(366, 0)
    /\ configs = <<>>
    /\ saved = <<>>
    /\ output = Out("none", 0, None)
    /\ data_file = None
    /\ data = None
    /\ block = None
    /\ primary_lifts = <<>>
    /\ lift = ""
    /\ week_data = <<>>
    /\ goals_info = <<>>
    /\ week_is_current = FALSE
    /\ weekly_score = <<>>
    /\ grade_input = <<>>
    /\ grade_shown = "none"
    /\ week_input = 0
    /\ week_bounds = <<>>
    /\ pc = "log"
    /\ \/ checkins \in StoredLogs /\ config = DefaultGoals
       \/ /\ checkins \in {<<CheckinRecord(At(384, 0), TrainingDay)>>,
                            <<[timestamp |-> At(384, 0)]>>}
          /\ config \in SparseConfigs

\* weeks = calculate_weekly_summaries(checkins) and, for the week of the log,
\* check_goals_for_week(week_data, week_checkins, week_config)
fold_week ==
    /\ pc = "log"
    /\ LET weeks == calculate_weekly_summaries(checkins)
           week_id == get_week_number(checkins[1].timestamp)
       IN  /\ goals_info' = check_goals_for_week(weeks[week_id], checkins, config)
           /\ week_data' = WeekDataAfterCheck(weeks[week_id], config)
    /\ pc' = "folded"
    /\ UNCHANGED <<config, week_is_current, weekly_score, grade_input, grade_shown,
                   week_input, week_bounds, cliVars, dataVars, dialogVars>>

SpecFold == InitFold /\ [][fold_week]_vars

----------------------------------------------------------------------------
(* config.py: load_data and save_data on a data file, one of an older version *)
(* with a "weeks" entry included                                              *)

WithoutKey(d, key) == Restrict(d, DOMAIN d \ {key})

\* load_data keeping a "weeks" entry of the file
load_data_keep_weeks(file) == IF file = None THEN [checkins |-> <<>>] ELSE file[1]

\* json.load of the file, a dict of the same keys and values, less its "weeks"; a
\* dict with no check-ins when there is no file
load_data(file) ==
    IF file = None THEN [checkins |-> <<>>]
    ELSE IF "weeks" \in DOMAIN file[1] THEN WithoutKey(file[1], "weeks")
    ELSE file[1]

\* The file save_data writes: json.dump of the dict less its "weeks"
save_data(d) == Some(WithoutKey(d, "weeks"))

\* A record of an older version, of Monday 2024-12-30, and the records checkin
\* writes: a training day or a rest day at one of the instants of the clock
LegacyCheckin == [timestamp |-> At(364, 0), protein |-> 140]

NewCheckins ==
    {CheckinRecord(t, answers) : t \in ClockInstants, answers \in CheckinInputs}

\* The data files a command can find: none, an empty dict, a log of no or one
\* check-in, and the same of an older version, with the buckets of the log under
\* "weeks"
DataFiles ==
    LET logs == {<<>>} \cup {<<checkin>> : checkin \in NewCheckins \cup {LegacyCheckin}}
    IN  {None, Some(<<>>), Some([weeks |-> <<>>])}
            \cup {Some([checkins |-> log]) : log \in logs}
            \cup {Some([checkins |-> log, weeks |-> calculate_weekly_summaries(log)]) :
                      log \in logs}

InitData ==
    /\ now = At(366, 0)
    /\ configs = <<>>
    /\ checkins = <<>>
    /\ saved = <<>>
    /\ output = Out("none", 0, None)
    /\ week_data = <<>>
    /\ config = <<>>
    /\ goals_info = <<>>
    /\ week_is_current = FALSE
    /\ weekly_score = <<>>
    /\ grade_input = <<>>
    /\ grade_shown = "none"
    /\ week_input = 0
    /\ week_bounds = <<>>
    /\ data_file \in DataFiles
    /\ data = None
    /\ block = None
    /\ primary_lifts = <<>>
    /\ lift = ""
    /\ pc = "file"

\* data = load_data(), the first use of the file by checkin, data and export
load ==
    /\ pc = "file"
    /\ data' = Some(load_data(data_file))
    /\ pc' = "loaded"
    /\ UNCHANGED <<data_file, week_data, config, goals_info, week_is_current,
                   weekly_score, grade_input, grade_shown, week_input, week_bounds,
                   cliVars, dialogVars>>

\* checkin_command: data["checkins"].append(checkin), on an empty list when the
\* dict has none
append_checkin ==
    \E checkin \in NewCheckins :
        LET log == Get(data[1], "checkins", <<>>)
        IN  /\ pc = "loaded"
            /\ Len(log) < MaxCheckins
            /\ data' = Some(DictSet(data[1], "checkins", RecordCheckin(log, checkin, FALSE)))
            /\ pc' = "appended"
            /\ UNCHANGED <<data_file, week_data, config, goals_info, week_is_current,
                           weekly_score, grade_input, grade_shown, week_input,
                           week_bounds, cliVars, dialogVars>>

\* save_data(data), which ends the checkin
save ==
    /\ pc \in {"loaded", "appended"}
    /\ data_file' = save_data(data[1])
    /\ data' = None
    /\ pc' = "file"
    /\ UNCHANGED <<week_data, config, goals_info, week_is_current, weekly_score,
                   grade_input, grade_shown, week_input, week_bounds, cliVars, dialogVars>>

\* The end of a command that does not save: data, export, checkin --dry-run
return ==
    /\ pc = "loaded"
    /\ data' = None
    /\ pc' = "file"
    /\ UNCHANGED <<data_file, week_data, config, goals_info, week_is_current,
                   weekly_score, grade_input, grade_shown, week_input, week_bounds,
                   cliVars, dialogVars>>

SpecData == InitData /\ [][load \/ append_checkin \/ save \/ return]_vars

----------------------------------------------------------------------------
(* checkin_command: the workout questions of the dialogue, one prompt at a time *)

\* The answers to the block day prompt
BlockInputs == {"w1d1", "Week 2 Day 3", "2 1", "leg day"}

\* parse_block_day on these answers: (week, day), nothing where it raises BadParameter
parse_block_day(block_str) ==
    CASE block_str = "w1d1" -> Some(<<1, 1>>)
      [] block_str = "Week 2 Day 3" -> Some(<<2, 3>>)
      [] block_str = "2 1" -> Some(<<2, 1>>)
      [] OTHER -> None

lift_options == <<"squat", "bench", "deadlift">>

\* The answers to the lift prompt: nothing, blanks, the three lifts as typed in
\* several ways, and names that are no lift
LiftInputs == {"", "  ", "squat", "Bench ", " DEADLIFT", "press", "squats"}

\* lift.lower().strip() on these answers
lower_strip(name) ==
    CASE name = "  " -> ""
      [] name = "Bench " -> "bench"
      [] name = " DEADLIFT" -> "deadlift"
      [] OTHER -> name

\* One comma-separated piece of a weights answer, by what parse_weights reads of it:
\* its length, whether strip() leaves nothing, whether it holds "kg", the number of
\* parts split("x") gives, and what float() and int() make of the two parts (nothing
\* where they raise ValueError)
Piece(chars, kg, parts, weight, reps) ==
    [chars |-> chars, blank |-> FALSE, kg |-> kg, parts |-> parts, weight |-> weight,
     reps |-> reps]

NoChars == [chars |-> 0, blank |-> TRUE, kg |-> FALSE, parts |-> 1, weight |-> None,
            reps |-> None]

Spaces == [NoChars EXCEPT !.chars = 2]

\* "175x5", "80kgx5", "175", "x5", "175x5x3", "175xfive"
Lb175x5 == Piece(5, FALSE, 2, Some(175), Some(5))

Kg80x5 == Piece(6, TRUE, 2, Some(80), Some(5))

NoReps == Piece(3, FALSE, 1, Some(175), None)

NoWeight == Piece(2, FALSE, 2, None, Some(5))

ThreeParts == Piece(7, FALSE, 3, Some(175), Some(5))

WordReps == Piece(8, FALSE, 2, Some(175), None)

\* The answers to the weights prompt, as their comma-separated pieces: "", "  ", ",",
\* one set, several sets, sets with blank pieces, and malformed ones
WeightInputs ==
    {<<NoChars>>, <<Spaces>>, <<NoChars, NoChars>>, <<Lb175x5>>, <<Kg80x5>>,
     <<Kg80x5, Lb175x5>>, <<Spaces, Lb175x5>>, <<Lb175x5, NoReps>>, <<NoReps>>,
     <<NoWeight>>, <<ThreeParts>>, <<WordReps>>}

\* A weight in pounds, held in hundredths of a pound: round(weight_kg * 2.20462, 2)
\* for a weight in kg, round(weight_lbs, 2) otherwise
Pounds(weight, kg) ==
    IF kg THEN (weight * 220462 + 500) \div 1000 ELSE weight * 100

\* The loop of parse_weights over the pieces: blank pieces are passed over, a
\* malformed piece raises BadParameter (nothing), a set is appended in pounds
RECURSIVE ParseSets(_, _, _)
ParseSets(weights_str, i, sets) ==
    IF i > Len(weights_str) THEN Some(sets)
    ELSE LET set_str == weights_str[i]
         IN  IF set_str.blank THEN ParseSets(weights_str, i + 1, sets)
             ELSE IF set_str.parts # 2 \/ set_str.weight = None \/ set_str.reps = None
             THEN None
             ELSE ParseSets(weights_str, i + 1,
                            Append(sets, [weight |-> Pounds(set_str.weight[1], set_str.kg),
                                          reps |-> set_str.reps[1]]))

\* not weights_str: the answer has no character
IsEmptyString(weights_str) == Len(weights_str) = 1 /\ weights_str[1].chars = 0

parse_weights(weights_str) ==
    IF Len(weights_str) = 1 /\ weights_str[1].blank THEN Some(<<>>)
    ELSE ParseSets(weights_str, 1, <<>>)

\* The lift loop taking any empty answer as the end of the lifts
LoopDoneOnEmpty(name, lifts) == name = ""

\* The lift loop is left on an empty answer once a lift is recorded
LoopDone(name, lifts) == name = "" /\ lifts # <<>>

\* The record of the dialogue: the one of the other answers with the workout entered
CheckinWith(timestamp, answers, workout) ==
    [CheckinRecord(timestamp, answers) EXCEPT !.workout = workout]

\* The rest of checkin_command once checkin["workout"] is set: the remaining
\* prompts, then the record appended and saved unless --dry-run
FinishCheckin(answers, workout) ==
    \E dry_run \in BOOLEAN :
        /\ checkins' = RecordCheckin(checkins, CheckinWith(now, answers, workout), dry_run)
        /\ output' = Out("checkin", 0, IF dry_run THEN Some("DRY RUN") ELSE None)
        /\ pc' = "saved"

\* A store of one snapshot, an empty log, and the dialogue at its workout question
InitDialog ==
    /\ now \in ClockInstants
    /\ configs = DictSet(<<>>, get_timestamped_config_path(At(366, 0)),
                         StampedConfig(DefaultGoals, At(366, 0)))
    /\ checkins = <<>>
    /\ saved = <<>>
    /\ output = Out("none", 0, None)
    /\ data_file = None
    /\ data = None
    /\ block = None
    /\ primary_lifts = <<>>
    /\ lift = ""
    /\ week_data = <<>>
    /\ config = <<>>
    /\ goals_info = <<>>
    /\ week_is_current = FALSE
    /\ weekly_score = <<>>
    /\ grade_input = <<>>
    /\ grade_shown = "none"
    /\ week_input = 0
    /\ week_bounds = <<>>
    /\ pc = "did_workout"

\* "Did you work out today?"
confirm_workout ==
    \E did_workout \in BOOLEAN :
        /\ pc = "did_workout"
        /\ IF did_workout
           THEN /\ pc' = "block_day"
                /\ UNCHANGED <<checkins, output>>
           ELSE FinishCheckin(RestDay, None)
        /\ UNCHANGED <<now, configs, saved, week_data, config, goals_info,
                       week_is_current, weekly_score, grade_input, grade_shown,
                       week_input, week_bounds, dataVars, dialogVars>>

\* "Block day", asked again until it parses; the lifts start empty
prompt_block_day ==
    \E block_str \in BlockInputs :
        LET parsed == parse_block_day(block_str)
        IN  /\ pc = "block_day"
            /\ IF parsed = None
               THEN UNCHANGED <<block, primary_lifts, pc>>
               ELSE /\ block' = parsed
                    /\ primary_lifts' = <<>>
                    /\ pc' = "lift"
            /\ UNCHANGED <<lift, week_data, config, goals_info, week_is_current,
                           weekly_score, grade_input, grade_shown, week_input,
                           week_bounds, cliVars, dataVars>>

\* "Lift": an empty answer ends the loop once a lift is recorded and asks again
\* before; a name that is no lift asks again; a lift goes on to its weight
prompt_lift ==
    \E answer \in LiftInputs :
        LET name == lower_strip(answer)
        IN  /\ pc = "lift"
            /\ IF LoopDone(name, primary_lifts)
               THEN /\ FinishCheckin(TrainingDay,
                                     Some([week |-> block[1][1], day |-> block[1][2],
                                           primary_lifts |-> primary_lifts]))
                    /\ UNCHANGED lift
               ELSE IF name = "" \/ \A k \in DOMAIN lift_options : lift_options[k] # name
               THEN UNCHANGED <<lift, checkins, output, pc>>
               ELSE /\ lift' = name
                    /\ pc' = "weights"
                    /\ UNCHANGED <<checkins, output>>
            /\ UNCHANGED <<now, configs, saved, block, primary_lifts, week_data, config,
                           goals_info, week_is_current, weekly_score, grade_input,
                           grade_shown, week_input, week_bounds, dataVars>>

\* The weight of the lift: an empty answer skips the lift, an answer that does not
\* parse or holds no set is asked again, the first set of one that does is recorded
prompt_weights ==
    \E weights_str \in WeightInputs :
        LET weights_sets == parse_weights(weights_str)
        IN  /\ pc = "weights"
            /\ IF IsEmptyString(weights_str)
               THEN /\ pc' = "lift"
                    /\ UNCHANGED primary_lifts
               ELSE IF weights_sets = None \/ weights_sets = Some(<<>>)
               THEN UNCHANGED <<primary_lifts, pc>>
               ELSE /\ primary_lifts' = DictSet(primary_lifts, lift,
                                               [weight |-> weights_sets[1][1].weight,
                                                reps |-> weights_sets[1][1].reps])
                    /\ pc' = "lift"
            /\ UNCHANGED <<block, lift, week_data, config, goals_info, week_is_current,
                           weekly_score, grade_input, grade_shown, week_input,
                           week_bounds, cliVars, dataVars>>

SpecDialog ==
    InitDialog
        /\ [][confirm_workout \/ prompt_block_day \/ prompt_lift \/ prompt_weights]_vars

----------------------------------------------------------------------------
(* Properties of the snapshot store *)

\* Instants from 2024-12-31 to 2025-01-21, around every snapshot of a reachable store
TargetDates == At(365, 0)..At(386, 0)

\* The snapshot the resolution rule names for a target: the one with the largest
\* timestamp at or before it, the one with the smallest timestamp when there is none
Resolved(target) ==
    LET stored == DOMAIN configs
        before == {f \in stored : f <= target}
    IN  IF before # {}
        THEN CHOOSE f \in before : \A g \in before : g <= f
        ELSE CHOOSE f \in stored : \A g \in stored : f <= g

\* C1: with at least one snapshot stored, get_config_path_for_date returns the snapshot
\* with the largest timestamp at or before the target instant, and the snapshot with
\* the smallest timestamp when none is, in whatever order the directory is listed
C1_ResolutionRule ==
    DOMAIN configs # {} =>
        \A order \in GlobOrders, target \in TargetDates :
            get_config_path_for_date(order, target) = Some(Resolved(target))

\* Two snapshots, 2025-01-01 and 2025-01-20: a target before both falls back to the
\* earliest, a target between them resolves to the first, a later one to the second
C1_Witness ==
    /\ DOMAIN configs = {At(366, 0), At(385, 0)}
    /\ \A order \in GlobOrders :
        /\ get_config_path_for_date(order, At(365, 0)) = Some(At(366, 0))
        /\ get_config_path_for_date(order, At(384, 0)) = Some(At(366, 0))
        /\ get_config_path_for_date(order, At(385, 0)) = Some(At(385, 0))
        /\ get_config_path_for_date(order, At(386, 0)) = Some(At(385, 0))

\* C15: the resolver returns absent (None) exactly when no snapshot is stored, as a
\* value; with snapshots stored it returns one of them for every target, targets
\* before the earliest snapshot included
C15_AbsentIffEmpty ==
    \A order \in GlobOrders, target \in TargetDates :
        LET path == get_config_path_for_date(order, target)
            loaded == load_config_for_date(order, target)
        IN  IF DOMAIN configs = {}
            THEN path = None /\ loaded = None
            ELSE /\ path # None
                 /\ path[1] \in DOMAIN configs
                 /\ loaded = Some(configs[path[1]])

\* A store whose snapshots are all later than 2024-12-31 00:00:00, resolved for it
C15_Witness ==
    /\ DOMAIN configs # {}
    /\ \A f \in DOMAIN configs : f > At(365, 0)
    /\ \A order \in GlobOrders :
        /\ get_config_path_for_date(order, At(365, 0)) # None
        /\ load_config_for_date(order, At(365, 0)) # None

\* C28: resolution is monotone in the target instant: for targets t1 <= t2 the snapshot
\* resolved for t1 is not newer than the one resolved for t2, targets before the
\* earliest snapshot included, in whatever orders the directory is listed
C28_ResolutionMonotone ==
    DOMAIN configs # {} =>
        \A o1, o2 \in GlobOrders, t1, t2 \in TargetDates :
            t1 <= t2 =>
                get_config_path_for_date(o1, t1)[1] <= get_config_path_for_date(o2, t2)[1]

\* Two snapshots; the targets 2024-12-31 (before both, resolved by the fallback) and
\* 2025-01-19 resolve to the first, the target 2025-01-21 to the second
C28_Witness ==
    /\ Cardinality(DOMAIN configs) = 2
    /\ \A f \in DOMAIN configs : f > At(365, 0)
    /\ \E f \in DOMAIN configs : f > At(384, 0)
    /\ \A order \in GlobOrders :
        /\ ScanConfigs(list_config_files(order), 1, At(365, 0), None) = None
        /\ get_config_path_for_date(order, At(365, 0)) = Some(At(366, 0))
        /\ get_config_path_for_date(order, At(384, 0)) = Some(At(366, 0))
        /\ get_config_path_for_date(order, At(386, 0))[1] > At(366, 0)

\* Every save so far is a stored snapshot with the value it was saved with
SavesKept ==
    /\ Cardinality(DOMAIN configs) = Len(saved)
    /\ \A i \in DOMAIN saved :
        /\ saved[i].file \in DOMAIN configs
        /\ configs[saved[i].file] = saved[i].snapshot

\* C3: after any sequence of saves by init and goals --update at non-decreasing clock
\* times, as many snapshots are stored as saves were performed and every earlier
\* snapshot is still stored with the value it was saved with
C3_AppendOnly == SavesKept

----------------------------------------------------------------------------
(* Properties of the weekly report *)

\* The last instant of the week with the given id: the last second of the day whose
\* next second belongs to another week (Sunday)
LastInstantOf(week_id) ==
    CHOOSE t \in {At(d, SecondsPerDay - 1) : d \in 364..398} :
        get_week_number(t) = week_id /\ get_week_number(t + 1) # week_id

ReportShown == output.cmd = "data" /\ output.report # None

\* C2: the weekly report grades every week against the snapshot the resolution rule
\* names for the end of the week (Sunday, end of day), not for its start: with a
\* snapshot of 2025-01-01 (4 workouts) and one of 2025-01-20 (5 workouts) the week
\* 2025-01-13..19 is graded against the first and the week 2025-01-20..26 against
\* the second
C2_GradedAtWeekEnd ==
    ReportShown =>
        \A w \in DOMAIN output.report[1].weeks :
            LET shown == output.report[1].weeks[w]
                f == Resolved(LastInstantOf(w))
            IN  /\ shown.config_path = Some(f)
                /\ shown.config = configs[f]
                /\ shown.goals_info.workouts.goal = configs[f].workouts_per_week

\* The report of the claim's example: snapshots of 2025-01-01 and 2025-01-20, weeks
\* 2025-W03 and 2025-W04
C2_Witness ==
    /\ ReportShown
    /\ DOMAIN configs = {At(366, 0), At(385, 0)}
    /\ configs[At(366, 0)].workouts_per_week = 4
    /\ configs[At(385, 0)].workouts_per_week = 5
    /\ DOMAIN output.report[1].weeks = {<<2025, 3>>, <<2025, 4>>}
    /\ output.report[1].weeks[<<2025, 3>>].config_path = Some(At(366, 0))
    /\ output.report[1].weeks[<<2025, 3>>].goals_info.workouts.goal = 4
    /\ output.report[1].weeks[<<2025, 4>>].config_path = Some(At(385, 0))
    /\ output.report[1].weeks[<<2025, 4>>].goals_info.workouts.goal = 5

\* The orders in which a sequence can be enumerated
Perms(s) ==
    {p \in [1..Len(s) -> 1..Len(s)] : \A i, j \in 1..Len(s) : p[i] = p[j] => i = j}

Permuted(s, p) == [i \in 1..Len(s) |-> s[p[i]]]

\* The same values the same number of times
SameBag(a, b) ==
    /\ Len(a) = Len(b)
    /\ \A i \in 1..Len(a) :
        Cardinality({j \in 1..Len(a) : a[j] = a[i]})
            = Cardinality({j \in 1..Len(b) : b[j] = a[i]})

\* The same weeks, and in each the same year, week, start, end and counters and the
\* same multiset of values in every list
SameSummaries(a, b) ==
    /\ DOMAIN a = DOMAIN b
    /\ \A w \in DOMAIN a :
        /\ DOMAIN a[w] = DOMAIN b[w]
        /\ \A k \in DOMAIN a[w] :
            IF k \in ListKeys \cup {"wake_up_times"}
            THEN SameBag(a[w][k], b[w][k])
            ELSE a[w][k] = b[w][k]

\* C4: calculate_weekly_summaries maps every permutation of the same check-ins to
\* the same weeks with the same year, week, week_start, week_end, counters and
\* multisets of values
C4_PermutationInvariant ==
    \A p \in Perms(checkins) :
        SameSummaries(calculate_weekly_summaries(Permuted(checkins, p)),
                      calculate_weekly_summaries(checkins))

\* What a report says of each week: the snapshot it resolved, every metric's met,
\* goal and actual, the goals met, the applicable goals, the percentage, the grade
Scorecard(report) ==
    [w \in DOMAIN report.weeks |->
        LET shown == report.weeks[w]
        IN  [config_path |-> shown.config_path,
             metrics |-> [m \in DOMAIN shown.goals_info |->
                             [met |-> shown.goals_info[m].met,
                              goal |-> shown.goals_info[m].goal,
                              actual |-> shown.goals_info[m].actual]],
             goals_met |-> shown.goals_met,
             total_goals |-> shown.total_goals,
             percentage |-> shown.percentage,
             grade |-> shown.grade]]

\* C5: the report of a week (resolved snapshot, every metric's met, goal and actual,
\* goals met, applicable goals, percentage, grade) is the same in whatever order the
\* check-ins are stored and the snapshot files are enumerated
C5_Deterministic ==
    ReportShown =>
        \A p \in Perms(checkins), order \in GlobOrders :
            Scorecard(DataReport(Permuted(checkins, p), order, load_config(order)[1], now))
                = Scorecard(output.report[1])

----------------------------------------------------------------------------
(* Properties of check_goals_for_week *)

EvalDone == pc = "done"

\* For every metric but wake_up: where the bucket keeps its values, the goal's key in
\* a snapshot, how the weekly actual is formed, and the band of the goal it has to
\* lie in, in percent of the goal (no upper end: None)
Tolerance ==
    [workouts |-> [data |-> "workout_count", goal |-> "workouts_per_week",
                   kind |-> "count", low |-> 100, high |-> None],
     cardio |-> [data |-> "cardio_values", goal |-> "weekly_cardio_time_goal",
                 kind |-> "sum", low |-> 100, high |-> None],
     cooldown |-> [data |-> "cooldown_count", goal |-> "weekly_cooldown_goal",
                   kind |-> "count", low |-> 100, high |-> None],
     sleep |-> [data |-> "sleep_values", goal |-> "daily_sleep_goal",
                kind |-> "avg", low |-> 100, high |-> None],
     protein |-> [data |-> "protein_values", goal |-> "weekly_protein_goal",
                  kind |-> "avg", low |-> 99, high |-> Some(110)],
     calories |-> [data |-> "calories_values", goal |-> "weekly_calorie_goal",
                   kind |-> "avg", low |-> 95, high |-> Some(102)],
     steps |-> [data |-> "steps_values", goal |-> "weekly_steps_goal",
                kind |-> "avg", low |-> 100, high |-> Some(150)],
     carbs |-> [data |-> "carbs_values", goal |-> "weekly_carbs_goal",
                kind |-> "avg", low |-> 95, high |-> Some(110)],
     fats |-> [data |-> "fats_values", goal |-> "weekly_fats_goal",
               kind |-> "avg", low |-> 90, high |-> Some(105)],
     fiber |-> [data |-> "fiber_values", goal |-> "weekly_fiber_goal",
                kind |-> "avg", low |-> 100, high |-> Some(300)]]

\* The goal of a metric in the snapshot under evaluation, 0 when it has none
GoalOf(m) == Get(config, Tolerance[m].goal, 0)

\* The week has no recorded value of the metric
NoValues(m) ==
    IF Tolerance[m].kind = "count" THEN week_data[Tolerance[m].data] = 0
    ELSE week_data[Tolerance[m].data] = <<>>

\* The weekly actual of a metric as a fraction: the counter, the sum or the average
ActualOf(m) ==
    LET row == Tolerance[m]
    IN  IF row.kind = "count" THEN [num |-> week_data[row.data], den |-> 1]
        ELSE IF row.kind = "sum" THEN [num |-> SumSeq(week_data[row.data]), den |-> 1]
        ELSE [num |-> SumSeq(week_data[row.data]), den |-> Len(week_data[row.data])]

\* C6: a metric whose goal is zero or absent from the snapshot has met = null, the
\* wake-up metric included
C6_NullWithoutGoal ==
    EvalDone =>
        /\ \A m \in DOMAIN Tolerance : GoalOf(m) = 0 => goals_info[m].met = None
        /\ "wake_up_time_goal" \notin DOMAIN config => goals_info.wake_up.met = None

\* C7: a metric with no recorded values for the week has met = null and actual =
\* null, the count metrics workouts and cooldown included, whatever the goal
C7_NullWithoutValues ==
    EvalDone =>
        /\ \A m \in DOMAIN Tolerance :
            NoValues(m) => goals_info[m].met = None /\ goals_info[m].actual = None
        /\ week_data.wake_up_times = <<>> =>
            goals_info.wake_up.met = None /\ goals_info.wake_up.actual = None

\* C7 as the code has it: with no recorded values a metric kept as a list of values
\* has met = null and actual = null whatever the goal; wake_up has met = null and
\* the empty list as actual; the counters workouts and cooldown have actual = 0,
\* and met = false under a positive goal, null under a goal that is zero or absent
C7_WithoutValues ==
    EvalDone =>
        /\ \A m \in DOMAIN Tolerance :
            NoValues(m) =>
                IF Tolerance[m].kind = "count"
                THEN /\ goals_info[m].actual = Some([num |-> 0, den |-> 1])
                     /\ goals_info[m].met = IF GoalOf(m) > 0 THEN Some(FALSE) ELSE None
                ELSE goals_info[m].met = None /\ goals_info[m].actual = None
        /\ week_data.wake_up_times = <<>> =>
            goals_info.wake_up.met = None /\ goals_info.wake_up.actual = Some(<<>>)

\* An empty week evaluated under positive goals
C7_Witness ==
    /\ EvalDone
    /\ \A m \in DOMAIN Tolerance : NoValues(m) /\ GoalOf(m) > 0
    /\ week_data.wake_up_times = <<>>
    /\ goals_info.protein.met = None
    /\ goals_info.protein.actual = None
    /\ goals_info.workouts.met = Some(FALSE)
    /\ goals_info.cooldown.actual = Some([num |-> 0, den |-> 1])

C9_ProteinLowerEnd ==
    EvalDone =>
        LET values == week_data.protein_values
            g == GoalOf("protein")
        IN  (g > 0 /\ values # <<>>) =>
                /\ 100 * SumSeq(values) = 99 * g * Len(values) =>
                        goals_info.protein.met = Some(TRUE)
                /\ 100 * SumSeq(values) < 99 * g * Len(values) =>
                        goals_info.protein.met = Some(FALSE)

\* Goal 150 and the values 148 and 149: the average 148.5 is met
C9_Witness ==
    /\ EvalDone
    /\ GoalOf("protein") = 150
    /\ week_data.protein_values = <<148, 149>>
    /\ goals_info.protein.met = Some(TRUE)

\* A time of day that reads as HH:MM
ValidTime(time) == time[1] \in 0..23 /\ time[2] \in 0..59

MinutesOf(time) == time[1] * 60 + time[2]

\* C10: a recorded wake-up time adheres when it is at most 30 minutes from the goal;
\* the week's wake-up goal is met when adherent / total >= 0.80 and met is null when
\* no time was recorded (05:30, 05:45, 07:00 against 05:30: 2/3, not met)
C10_WakeUpAdherence ==
    EvalDone =>
        LET times == week_data.wake_up_times
            gw == Get(config, "wake_up_time_goal", None)
            total == Len(times)
            adherent == Cardinality({i \in 1..total :
                            Abs(MinutesOf(times[i]) - MinutesOf(gw)) <= 30})
        IN  (gw # None /\ ValidTime(gw) /\ \A i \in 1..total : ValidTime(times[i])) =>
                IF total = 0
                THEN goals_info.wake_up.met = None
                ELSE /\ goals_info.wake_up.adherence = <<adherent, total>>
                     /\ goals_info.wake_up.met = Some(5 * adherent >= 4 * total)

\* The claim's week: 05:30, 05:45 and 07:00 against the goal 05:30
C10_Witness ==
    /\ EvalDone
    /\ Get(config, "wake_up_time_goal", None) = <<5, 30>>
    /\ week_data.wake_up_times = <<<<5, 30>>, <<5, 45>>, <<7, 0>>>>
    /\ goals_info.wake_up.adherence = <<2, 3>>
    /\ goals_info.wake_up.met = Some(FALSE)

\* C11: a recorded wake-up time that does not parse is treated as absent: it counts
\* neither as adherent nor in the total of recorded days the 80% ratio is taken of, so a
\* week whose only wake-up entries do not parse has met = null
C11_UnparseableAbsent ==
    EvalDone =>
        LET times == week_data.wake_up_times
            gw == Get(config, "wake_up_time_goal", None)
            parsed == {i \in 1..Len(times) : ValidTime(times[i])}
            adherent == Cardinality({i \in parsed :
                            Abs(MinutesOf(times[i]) - MinutesOf(gw)) <= 30})
        IN  (gw # None /\ ValidTime(gw)) =>
                IF parsed = {}
                THEN goals_info.wake_up.met = None
                ELSE /\ goals_info.wake_up.adherence = <<adherent, Cardinality(parsed)>>
                     /\ goals_info.wake_up.met = Some(5 * adherent >= 4 * Cardinality(parsed))

----------------------------------------------------------------------------
(* Properties of the score and the grade *)

\* The metrics of the evaluated week whose met is true or false
Applicable == {m \in DOMAIN goals_info : goals_info[m].met \in {Some(TRUE), Some(FALSE)}}

\* C12: the weekly score counts only the metrics whose met is not null: total_goals
\* is the number of metrics with met true or false, goals_met the number with met
\* true, percentage = goals_met / total_goals x 100; a metric with met = null
\* changes neither
C12_ScoreOfApplicable ==
    EvalDone =>
        LET goals_met == Cardinality({m \in Applicable : goals_info[m].met = Some(TRUE)})
            total_goals == Cardinality(Applicable)
        IN  /\ weekly_score[1] = goals_met
            /\ weekly_score[2] = total_goals
            /\ total_goals > 0 =>
                   weekly_score[3].num * total_goals = 100 * goals_met * weekly_score[3].den

\* A week with metrics met, metrics not met and a metric without data: 6 of 10 goals
C12_Witness ==
    /\ EvalDone
    /\ Cardinality(DOMAIN goals_info) = 11
    /\ goals_info.wake_up.met = None
    /\ weekly_score[1] = 6
    /\ weekly_score[2] = 10
    /\ weekly_score[3].num = 60 * weekly_score[3].den

\* The grades from the highest to the lowest, each but F with its cutoff
GradeScale ==
    <<[grade |-> "A+", cutoff |-> 97], [grade |-> "A", cutoff |-> 93],
      [grade |-> "A-", cutoff |-> 90], [grade |-> "B+", cutoff |-> 87],
      [grade |-> "B", cutoff |-> 83], [grade |-> "B-", cutoff |-> 80],
      [grade |-> "C+", cutoff |-> 77], [grade |-> "C", cutoff |-> 73],
      [grade |-> "C-", cutoff |-> 70], [grade |-> "D+", cutoff |-> 67],
      [grade |-> "D", cutoff |-> 63], [grade |-> "D-", cutoff |-> 60]>>

\* The grade of the scale for a percentage [num, den]: that of the highest cutoff
\* the percentage reaches, F when it reaches none
GradeOnScale(p) ==
    LET reached == {i \in DOMAIN GradeScale : p.num >= GradeScale[i].cutoff * p.den}
    IN  IF reached = {} THEN "F"
        ELSE GradeScale[CHOOSE i \in reached : \A j \in reached : i <= j].grade

\* The place of a grade on the scale: 13 for A+ down to 1 for F
RankOf(g) ==
    IF g = "F" THEN 1
    ELSE 14 - (CHOOSE i \in DOMAIN GradeScale : GradeScale[i].grade = g)

\* C13: calculate_letter_grade gives every percentage of [0, 100] a grade, with the
\* cutoffs A+ 97, A 93, A- 90, B+ 87, B 83, B- 80, C+ 77, C 73, C- 70, D+ 67, D 63,
\* D- 60 included in their bands and F below 60; 90.0 gives A-, 89.99 gives B+, and a
\* higher percentage never gives a lower grade
C13_LetterGrade ==
    pc = "graded" =>
        /\ grade_shown = GradeOnScale(grade_input)
        /\ \A whole \in 0..100 :
            LET other == [num |-> whole, den |-> 1]
                higher == whole * grade_input.den >= grade_input.num
            IN  IF higher
                THEN RankOf(calculate_letter_grade(other)) >= RankOf(grade_shown)
                ELSE RankOf(calculate_letter_grade(other)) <= RankOf(grade_shown)

\* 89.99 graded B+
C13_Witness ==
    /\ pc = "graded"
    /\ grade_input.num * 100 = 8999 * grade_input.den
    /\ grade_shown = "B+"

\* C14: a week gets exactly one of three grade outcomes: no grade when it has no
\* applicable goal (never an F from 0%), "in progress" when it has applicable goals
\* and is the current week, and otherwise the letter grade of its percentage
C14_GradeOutcome ==
    EvalDone =>
        LET goals_met == Cardinality({m \in Applicable : goals_info[m].met = Some(TRUE)})
            total_goals == Cardinality(Applicable)
        IN  IF total_goals = 0 THEN grade_shown = "none"
            ELSE IF week_is_current THEN grade_shown = "in progress"
            ELSE grade_shown = GradeOnScale([num |-> 100 * goals_met, den |-> total_goals])

\* A finished week with no applicable goal: no grade
C14_Witness ==
    /\ EvalDone
    /\ ~week_is_current
    /\ Applicable = {}
    /\ weekly_score[2] = 0
    /\ grade_shown = "none"

----------------------------------------------------------------------------
(* Properties of the commands *)

\* C16: with no snapshot stored, checkin, data, goals and export each end with the
\* error exit and leave the check-in log and the snapshot store as they were; only
\* init creates the first snapshot
C16_RefuseWithoutSnapshot ==
    [][DOMAIN configs = {} =>
          /\ output'.cmd \in {"checkin", "data", "goals", "export"} =>
                 /\ output'.exit = 1
                 /\ checkins' = checkins
                 /\ configs' = configs
          /\ configs' # configs => output'.cmd = "init"]_vars

\* export refused in an empty store
C16_Witness ==
    /\ DOMAIN configs = {}
    /\ checkins = <<>>
    /\ saved = <<>>
    /\ output = Out("export", 1, None)

\* C17: the check-in log is append-only: a completed checkin without --dry-run puts
\* exactly one record after the records already stored, which keep their values and
\* their order, and no other step of checkin, data, goals, init or export changes
\* the log
C17_LogAppendOnly ==
    [][IF output' = Out("checkin", 0, None)
       THEN /\ Len(checkins') = Len(checkins) + 1
            /\ SubSeq(checkins', 1, Len(checkins)) = checkins
       ELSE checkins' = checkins]_vars

\* A check-in backfilled for 2024-12-31 stored after one of 2025-01-01
C17_Witness ==
    /\ output = Out("checkin", 0, None)
    /\ Len(checkins) = 2
    /\ checkins[1].timestamp = At(366, 0)
    /\ checkins[2].timestamp = parse_backfill_date(365)

\* C18: checkin --dry-run leaves the stored log exactly as it was
C18_DryRunKeepsLog ==
    [][output' = Out("checkin", 0, Some("DRY RUN")) => checkins' = checkins]_vars

\* A dry run over a log of one check-in
C18_Witness ==
    /\ output = Out("checkin", 0, Some("DRY RUN"))
    /\ Len(checkins) = 1
    /\ DOMAIN configs # {}

----------------------------------------------------------------------------
(* Properties of the week functions *)

\* C19: for every date, get_week_start is the Monday of the date's week at 00:00:00
\* and get_week_end the Sunday six days later at the last instant of the day; the
\* date lies between them, every date between them has the week identifier of the
\* date and every date outside them has another one
C19_WeekInterval ==
    pc = "week" =>
        LET week_start == week_bounds.week_start
            week_end == week_bounds.week_end
        IN  /\ DayOf(week_start) % 7 = 0
            /\ week_start % SecondsPerDay = 0
            /\ DayOf(week_end) = DayOf(week_start) + 6
            /\ week_end % SecondsPerDay = SecondsPerDay - 1
            /\ week_start <= week_input
            /\ week_input <= week_end
            /\ \A other \in WeekDates :
                (week_start <= other /\ other <= week_end)
                    <=> get_week_number(other) = week_bounds.week_id

\* Thursday 2026-12-31 at its last instant: week 53 of 2026, from Monday 2026-12-28
\* 00:00:00 to the last instant of Sunday 2027-01-03
C19_Witness ==
    /\ pc = "week"
    /\ week_input = At(1095, SecondsPerDay - 1)
    /\ week_bounds = [week_id |-> <<2026, 53>>, week_start |-> At(1092, 0),
                      week_end |-> At(1098, SecondsPerDay - 1)]

\* C20: the buckets of a report are those of the week identifiers of the stored
\* check-ins, one bucket for each identifier; a bucket's session_count is the number
\* of check-ins with its identifier, whatever they record, and the session counts
\* add up to the number of check-ins
C20_SessionCounts ==
    ReportShown =>
        LET weeks == output.report[1].weeks
            WeekIdOf(i) == get_week_number(checkins[i].timestamp)
            sessions == [w \in DOMAIN weeks |-> weeks[w].week_data.session_count]
        IN  /\ DOMAIN weeks = {WeekIdOf(i) : i \in DOMAIN checkins}
            /\ \A w \in DOMAIN weeks :
                sessions[w] = Cardinality({i \in DOMAIN checkins : WeekIdOf(i) = w})
            /\ SumOver(sessions, DOMAIN weeks) = Len(checkins)

\* C25: the year and the week of every bucket of a report are the ISO year and the
\* ISO week of the bucket's week identifier, also for a week that lies in two
\* calendar years
C25_YearOfWeekId ==
    ReportShown =>
        \A w \in DOMAIN output.report[1].weeks :
            /\ output.report[1].weeks[w].week_data.year = w[1]
            /\ output.report[1].weeks[w].week_data.week = w[2]

\* C26: the overall wake-up adherence of a report, adherent days and recorded days,
\* is the sum over the weeks of the adherence counts of the weekly summaries
C26_AdherenceAgrees ==
    ReportShown =>
        LET report == output.report[1]
            weekly == [w \in DOMAIN report.weeks |-> report.weeks[w].goals_info.wake_up.adherence]
        IN  /\ report.wake_adherence
                   = SumOver([w \in DOMAIN weekly |-> weekly[w][1]], DOMAIN weekly)
            /\ report.wake_total
                   = SumOver([w \in DOMAIN weekly |-> weekly[w][2]], DOMAIN weekly)

\* A training day and a rest day of the same week: two sessions, one workout
C20_Witness ==
    /\ ReportShown
    /\ Len(checkins) = 2
    /\ checkins[1].workout # None
    /\ checkins[2].workout = None
    /\ checkins[2].cardio = <<>>
    /\ DOMAIN output.report[1].weeks = {<<2025, 3>>}
    /\ output.report[1].weeks[<<2025, 3>>].week_data.session_count = 2
    /\ output.report[1].weeks[<<2025, 3>>].week_data.workout_count = 1

\* C27: an init run that finds a snapshot stored creates no snapshot and changes no
\* stored goal value: the snapshot store and the history of saves are the same
\* before and after it, so they are after any number of such runs
C27_InitKeepsStore ==
    [][(DOMAIN configs # {} /\ output'.cmd = "init")
           => (configs' = configs /\ saved' = saved)]_vars

\* init has run at an instant after the last snapshot was saved
C27_Witness ==
    /\ output = Out("init", 0, None)
    /\ saved # <<>>
    /\ DOMAIN configs # {}
    /\ now > saved[Len(saved)].file

----------------------------------------------------------------------------
(* Properties of the aggregation of a stored log *)

\* The number a check-in has in a numeric field, 0 when it has none
FieldValue(checkin, field) ==
    IF field = "cardio"
    THEN LET cardio == Get(checkin, "cardio", <<>>)
         IN  IF cardio = <<>> THEN 0 ELSE Get(cardio, "duration_minutes", 0)
    ELSE Get(checkin, field, 0)

\* The numbers other than 0 the log has in a field, in the order of the log
Recorded(field) ==
    SelectSeq([i \in DOMAIN checkins |-> FieldValue(checkins[i], field)],
              LAMBDA v : v # 0)

\* The list of a bucket and the metric of the evaluation a field goes to
ValuesKey(field) ==
    CASE field = "sleep_hours" -> "sleep_values"
      [] field = "cardio" -> "cardio_values"
      [] field = "calories" -> "calories_values"
      [] field = "carbs" -> "carbs_values"
      [] field = "fats" -> "fats_values"
      [] field = "protein" -> "protein_values"
      [] field = "fiber" -> "fiber_values"
      [] field = "weight" -> "weight_values"
      [] field = "steps" -> "steps_values"

MetricOf(field) == IF field = "sleep_hours" THEN "sleep" ELSE field

Folded == pc = "folded"

\* C21: a 0 in sleep_hours, protein, calories, steps, carbs, fats, fiber, weight or
\* the cardio duration is not recorded: the list of the bucket holds the other values
\* only, the weekly actual is formed from them alone, and a metric whose only values
\* of the week are 0 has met = null and actual = null
C21_ZeroNotRecorded ==
    Folded =>
        \A field \in NumericFields :
            LET recorded == Recorded(field)
                count == IF field = "cardio" THEN 1 ELSE Len(recorded)
            IN  /\ week_data[ValuesKey(field)] = recorded
                /\ field # "weight" =>
                       IF recorded = <<>>
                       THEN /\ goals_info[MetricOf(field)].met = None
                            /\ goals_info[MetricOf(field)].actual = None
                       ELSE goals_info[MetricOf(field)].actual
                                = Some([num |-> SumSeq(recorded), den |-> count])

\* A week of one check-in with 0 hours of sleep and 0 grams of protein, and goals
\* for both
C21_Witness ==
    /\ Folded
    /\ Len(checkins) = 1
    /\ "sleep_hours" \in DOMAIN checkins[1] /\ checkins[1].sleep_hours = 0
    /\ "protein" \in DOMAIN checkins[1] /\ checkins[1].protein = 0
    /\ config = DefaultGoals
    /\ week_data.sleep_values = <<>>
    /\ goals_info.sleep = [met |-> None, goal |-> 8, actual |-> None]
    /\ goals_info.protein = [met |-> None, goal |-> 150, actual |-> None]

\* What the evaluation of the week has for every metric
MetricNames ==
    {"workouts", "cardio", "protein", "calories", "steps", "carbs", "fats", "fiber",
     "cooldown", "sleep", "wake_up"}

\* What a bucket holds of a field when the week has nothing of it: an empty list, a
\* counter of 0
NothingOf(field) ==
    CASE field = "wake_up_time" -> week_data.wake_up_times = <<>>
      [] field = "workout" -> week_data.workout_count = 0
      [] field = "cool_down" -> week_data.cooldown_count = 0
      [] OTHER -> week_data[ValuesKey(field)] = <<>>

----------------------------------------------------------------------------
(* Properties of the export *)

\* The export printed the rows of a week
ExportShown ==
    /\ output.cmd = "export"
    /\ output.report # None
    /\ output.report[1].message = ""

\* The raw values of a check-in in the order of the rows: protein, carbs, fiber, fats,
\* calories, cardio minutes, steps and bodyweight (no entry for a weight of 0)
RawValues(checkin) ==
    <<Some(checkin.protein), Some(checkin.carbs), Some(checkin.fiber), Some(checkin.fats),
      Some(checkin.calories), Some(FieldValue(checkin, "cardio")), Some(checkin.steps),
      IF checkin.weight # 0 THEN Some(checkin.weight) ELSE None>>

\* C23: the export of a week has eight rows with one raw entry for each check-in of
\* the week, earlier check-ins first, and is the same in whatever order the check-ins
\* are stored in the log
C23_ExportRows ==
    ExportShown =>
        \A week \in ExportWeeks :
            output.report[1] = format_week_for_spreadsheet(checkins, week, now) =>
                LET target == IF week = None THEN get_week_number(now) ELSE week[1]
                    of_week == {i \in DOMAIN checkins :
                                   get_week_number(checkins[i].timestamp) = target}
                    rows == output.report[1].rows
                    n == Cardinality(of_week)
                IN  /\ Len(rows) = 8
                    /\ \A r \in 1..8 : Len(rows[r]) = n
                    /\ \E at \in [1..n -> of_week] :
                        /\ \A i, j \in 1..n : i # j => at[i] # at[j]
                        /\ \A i, j \in 1..n :
                            i < j => checkins[at[i]].timestamp <= checkins[at[j]].timestamp
                        /\ \A r \in 1..8, i \in 1..n :
                            rows[r][i] = RawValues(checkins[at[i]])[r]
                    /\ \A p \in Perms(checkins) :
                        format_week_for_spreadsheet(Permuted(checkins, p), week, now)
                            = output.report[1]

----------------------------------------------------------------------------
(* Properties of the data file *)

\* The check-ins of a data file, or of a dict: none without a file or a list
StoredCheckins(file) == IF file = None THEN <<>> ELSE Get(file[1], "checkins", <<>>)

HasWeeks(file) == file # None /\ "weeks" \in DOMAIN file[1]

\* C24 as stated: once load_data or save_data has run, the stored data has no
\* "weeks" entry
C24_NeverPersisted ==
    pc \in {"loaded", "appended"} => ~HasWeeks(data_file) /\ ~HasWeeks(data)

\* C24: the dict load_data returns has no "weeks" entry and the check-ins of the
\* file; the file save_data writes has no "weeks" entry and is the dict it was given;
\* nothing else writes the file, so that a "weeks" entry of an older version stays in
\* the file until the next save
C24_NeverWritten ==
    [][/\ ~HasWeeks(data')
       /\ (pc = "file" /\ pc' = "loaded") =>
              /\ StoredCheckins(data') = StoredCheckins(data_file)
              /\ DOMAIN data'[1] \ {"checkins"}
                     = (IF data_file = None THEN {} ELSE DOMAIN data_file[1])
                           \ {"checkins", "weeks"}
       /\ data_file' # data_file =>
              /\ pc \in {"loaded", "appended"} /\ pc' = "file"
              /\ ~HasWeeks(data_file')
              /\ data_file' = data]_vars

\* The file of an older version loaded: its "weeks" entry is still in the file and
\* not in the dict, its check-in is in both
C24_Witness ==
    /\ pc = "loaded"
    /\ HasWeeks(data_file)
    /\ DOMAIN data_file[1].weeks = {<<2025, 1>>}
    /\ ~HasWeeks(data)
    /\ data[1].checkins = <<LegacyCheckin>>
    /\ data_file[1].checkins = <<LegacyCheckin>>

----------------------------------------------------------------------------
(* Properties of the check-in dialogue *)

\* C29: the lift loop is left only with a lift recorded: every saved check-in whose
\* workout is not null has a non-empty primary_lifts whose keys are among squat,
\* bench and deadlift, and so has the record a finished dialogue printed or saved
C29_LiftsRecorded ==
    /\ \A n \in DOMAIN checkins :
        checkins[n].workout # None =>
            LET lifts == checkins[n].workout[1].primary_lifts
            IN  /\ DOMAIN lifts # {}
                /\ DOMAIN lifts \subseteq {"squat", "bench", "deadlift"}
    /\ (pc = "saved" /\ block # None) =>
            /\ DOMAIN primary_lifts # {}
            /\ DOMAIN primary_lifts \subseteq {"squat", "bench", "deadlift"}

\* A saved check-in with a workout of two lifts, one entered in kg
C29_Witness ==
    /\ pc = "saved"
    /\ Len(checkins) = 1
    /\ checkins[1].workout # None
    /\ DOMAIN checkins[1].workout[1].primary_lifts = {"squat", "deadlift"}
    /\ checkins[1].workout[1].primary_lifts.squat = [weight |-> 17637, reps |-> 5]
    /\ checkins[1].workout[1].primary_lifts.deadlift = [weight |-> 17500, reps |-> 5]

====
